---- MODULE Spec2Model ----
(***************************************************************************)
(* Model of kindle2readwise.core.Kindle2Readwise: the export pipeline that *)
(* parses Kindle clippings, filters the ones already in the highlights     *)
(* database, sends the rest to Readwise and records what was sent.         *)
(***************************************************************************)
EXTENDS Integers, Sequences, FiniteSets, Bags, TLC

\* ---------------------------------------------------------------- bounds
MaxLen == 2
MaxRuns == 2
MaxSel == 2

\* ------------------------------------------------------------ data model
None == "None"

\* parser.KindleClipping, the attributes core.py reads: a highlight without
\* author, one with an author, and a clipping without content
KindleClipping ==
  {[title |-> "T", author |-> None, content |-> "x"],
   [title |-> "T", author |-> "A", content |-> "x"],
   [title |-> "T", author |-> None, content |-> ""]}

\* `clipping.author or ""`
AuthorOrEmpty(author) == IF author = None \/ author = "" THEN "" ELSE author

\* the (title, author, content) triple handed to highlight_exists
DedupKey(clipping) == <<clipping.title, AuthorOrEmpty(clipping.author), clipping.content>>

Keys == {DedupKey(c) : c \in KindleClipping}

\* `if not clipping.content`
NoContent(clipping) == clipping.content = ""

\* models.ExportStats(): all counters start at zero
ExportStats == [total_processed |-> 0, new_sent |-> 0, duplicates_skipped |-> 0, failed_to_send |-> 0]

\* the row save_highlight writes for a clipping
HighlightRow(clipping, export_status) == [key |-> DedupKey(clipping), export_status |-> export_status]

\* HighlightsDAO.highlight_exists; the table is the bag of its rows
highlight_exists(db, key) == BagIn([key |-> key, export_status |-> "success"], db)

\* HighlightsDAO.save_highlight
save_highlight(db, clipping, export_status) == db (+) SetToBag({HighlightRow(clipping, export_status)})

\* HighlightsDAO.start_export_session: the new row; its id is its position
start_export_session(ss) == Append(ss, [status |-> "started", completions |-> 0])

\* HighlightsDAO.complete_export_session: the row keeps the status and how often
\* it was completed; the stats handed over are kept in completeLog
complete_export_session(ss, id, status) == [ss EXCEPT ![id] = [status |-> status, completions |-> @.completions + 1]]

\* Readwise accepts the first `sent` clippings of a batch
Accepted(clippings, result) == SubSeq(clippings, 1, result.sent)

\* ReadwiseAPIClient.send_highlights: the results it can return for a batch
SendResults(clippings) == {[sent |-> k, failed |-> Len(clippings) - k] : k \in 0..Len(clippings)}

\* sequences over S of length at most n
SeqUpTo(S, n) == UNION {[1..m -> S] : m \in 0..n}

\* ------------------------------------------------------- pure functions
\* _filter_duplicates inserting each new clipping at the front of the list
RECURSIVE FilterNewReversed(_, _)
FilterNewReversed(clippings, db) ==
  IF clippings = <<>> THEN <<>>
  ELSE LET clipping == Head(clippings)
           rest == FilterNewReversed(Tail(clippings), db)
       IN IF NoContent(clipping) THEN rest
          ELSE IF highlight_exists(db, DedupKey(clipping)) THEN rest
          ELSE rest \o <<clipping>>

\* _filter_duplicates: the list of new clippings
RECURSIVE FilterNew(_, _)
FilterNew(clippings, db) ==
  IF clippings = <<>> THEN <<>>
  ELSE LET clipping == Head(clippings)
           rest == FilterNew(Tail(clippings), db)
       IN IF NoContent(clipping) THEN rest
          ELSE IF highlight_exists(db, DedupKey(clipping)) THEN rest
          ELSE <<clipping>> \o rest

\* duplicate_count without the `continue` of the no-content branch
FilterDupCountEmptyToo(clippings, db) == Cardinality({i \in 1..Len(clippings) : NoContent(clippings[i]) \/ highlight_exists(db, DedupKey(clippings[i]))})

\* _filter_duplicates: duplicate_count
RECURSIVE FilterDupCount(_, _)
FilterDupCount(clippings, db) ==
  IF clippings = <<>> THEN 0
  ELSE LET clipping == Head(clippings)
           rest == FilterDupCount(Tail(clippings), db)
       IN IF NoContent(clipping) THEN rest
          ELSE IF highlight_exists(db, DedupKey(clipping)) THEN rest + 1
          ELSE rest

\* the clippings _filter_duplicates hands to highlight_exists among the first n
FilterLookedUp(clippings, n) == {clippings[i] : i \in {j \in 1..n : ~NoContent(clippings[j])}}

\* the slice taken without the count: every submitted clipping is saved
SuccessfullySentWholeBatch(new_clippings, sent_count) == new_clippings

\* `new_clippings[:sent_count]`
SuccessfullySent(new_clippings, sent_count) == SubSeq(new_clippings, 1, sent_count)

\* the loop of _save_exported_highlights without its try: the first
\* save_highlight that raises ends it
RECURSIVE SaveAllStopsAtFailure(_, _, _, _)
SaveAllStopsAtFailure(db, clippings, failing, i) ==
  IF i > Len(clippings) \/ i \in failing THEN db
  ELSE SaveAllStopsAtFailure(save_highlight(db, clippings[i], "success"), clippings, failing, i + 1)

\* _save_exported_highlights: the rows the loop leaves in the database when
\* save_highlight raises for the calls whose positions are in failing
RECURSIVE SaveAll(_, _, _, _)
SaveAll(db, clippings, failing, i) ==
  IF i > Len(clippings) THEN db
  ELSE SaveAll(IF i \in failing THEN db ELSE save_highlight(db, clippings[i], "success"), clippings, failing, i + 1)

\* _save_exported_highlights: one entry per save_highlight call
SaveCalls(clippings, failing) == [i \in 1..Len(clippings) |-> [clipping |-> clippings[i], ok |-> i \notin failing]]

\* number of positions of a sequence holding a clipping with the given key
CountKey(clippings, key) == Cardinality({i \in 1..Len(clippings) : DedupKey(clippings[i]) = key})

\* the except branch without `stats.new_sent = 0`
ErrorStatsKeepsSent(st, clippings) == [st EXCEPT !.failed_to_send = IF clippings # <<>> THEN Len(clippings) ELSE st.total_processed]

\* the except branch of process: stats after a failure
ErrorStats(st, clippings) == [st EXCEPT !.failed_to_send = IF clippings # <<>> THEN Len(clippings) ELSE st.total_processed, !.new_sent = 0]

\* _handle_real_export without the update of status_ref
ExportStatusNeverPartial(current, failed_to_send) == current

\* the status _handle_real_export leaves in status_ref
ExportStatus(current, failed_to_send) == IF failed_to_send > 0 THEN "partial" ELSE current

\* _handle_real_export without line 156: new_sent keeps the count of the filter
RealExportStatsKeepsCount(st, result) == [st EXCEPT !.failed_to_send = result.failed]

\* _handle_real_export, lines 155-157: the stats after send_highlights returned
RealExportStats(st, result) == [st EXCEPT !.new_sent = result.sent, !.failed_to_send = result.failed]

\* a dry run that reports nothing as sent
DryRunStatsZero(st, new_clippings) == [st EXCEPT !.new_sent = 0, !.failed_to_send = 0]

\* _handle_dry_run_export: the stats it leaves
DryRunStats(st, new_clippings) == [st EXCEPT !.new_sent = Len(new_clippings), !.failed_to_send = 0]

\* get_pending_highlights: the descriptor of the clipping at position idx
HighlightDict(clippings, idx) ==
  [id |-> idx,
   title |-> clippings[idx].title,
   author |-> IF AuthorOrEmpty(clippings[idx].author) = "" THEN "Unknown" ELSE clippings[idx].author,
   highlight |-> clippings[idx].content,
   original_clipping |-> clippings[idx]]

\* get_pending_highlights: the list it returns
RECURSIVE PendingFrom(_, _, _)
PendingFrom(clippings, db, idx) ==
  IF idx > Len(clippings) THEN <<>>
  ELSE IF highlight_exists(db, DedupKey(clippings[idx]))
       THEN PendingFrom(clippings, db, idx + 1)
       ELSE <<HighlightDict(clippings, idx)>> \o PendingFrom(clippings, db, idx + 1)

get_pending_highlights(clippings, db) == PendingFrom(clippings, db, 1)

\* process_selected: `h["id"] in id_to_highlight`
InIdMap(pend, id) == \E i \in 1..Len(pend) : pend[i].id = id

\* process_selected: `id_to_highlight[id]["original_clipping"]` (a dict keeps the last entry of an id)
ClippingOfId(pend, id) == pend[CHOOSE i \in 1..Len(pend) : pend[i].id = id /\ \A j \in (i + 1)..Len(pend) : pend[j].id # id].original_clipping

\* selected_clippings when an id that is not in the view falls back to the last descriptor
RECURSIVE SelectedClippingsUnknownAsLast(_, _)
SelectedClippingsUnknownAsLast(pend, ids) ==
  IF ids = <<>> THEN <<>>
  ELSE IF InIdMap(pend, Head(ids))
       THEN <<ClippingOfId(pend, Head(ids))>> \o SelectedClippingsUnknownAsLast(pend, Tail(ids))
       ELSE IF pend # <<>>
            THEN <<pend[Len(pend)].original_clipping>> \o SelectedClippingsUnknownAsLast(pend, Tail(ids))
            ELSE SelectedClippingsUnknownAsLast(pend, Tail(ids))

\* process_selected: selected_clippings
RECURSIVE SelectedClippings(_, _)
SelectedClippings(pend, ids) ==
  IF ids = <<>> THEN <<>>
  ELSE IF InIdMap(pend, Head(ids))
       THEN <<ClippingOfId(pend, Head(ids))>> \o SelectedClippings(pend, Tail(ids))
       ELSE SelectedClippings(pend, Tail(ids))

\* ----------------------------------------------------------------- state
VARIABLES
  source,          \* the clippings file: what parser.parse() returns
  dry_run,         \* self.dry_run of the current instance
  db,              \* highlights table of the database
  sessions,        \* export sessions table of the database
  pc,              \* position of the running operation
  op,              \* the operation that is running or ran last
  runs,            \* operations started so far
  session_id,      \* process: session_id (0 is None)
  stats,           \* stats of the running operation
  session_status,  \* process: session_status
  status_ref,      \* process: status_ref[0]
  all_clippings,   \* process: all_clippings
  new_clippings,   \* process: new_clippings
  raising,         \* process: an exception is propagating
  outcome,         \* what the caller of the last operation received
  pending,         \* what get_pending_highlights returned last
  batch,           \* the list given to send_highlights by this operation
  export_result,   \* what send_highlights returned to this operation
  saveLog,         \* save_highlight calls of this operation
  lookedUp,        \* clippings _filter_duplicates gave to highlight_exists in this operation
  completeLog,     \* complete_export_session calls of this operation
  dbAtStart,       \* the highlights table when this operation started
  delivered,       \* per key, how many clippings Readwise accepted so far
  saveCount,       \* per key, save_highlight calls so far
  token_checked,   \* this operation called validate_token
  prevSaveFailed,  \* a save_highlight call of the last real process() before this operation raised
  setup,           \* validate_setup: what the file system and validate_token answer
  selected,        \* process_selected: how many of selected_ids are ids of the view, and whether one is not
  rejected         \* the clippings Readwise did not accept in the last run (kept in LiveSpec only)

vars == <<source, dry_run, db, sessions, pc, op, runs, session_id, stats, session_status,
          status_ref, all_clippings, new_clippings, raising, outcome, pending, batch, export_result,
          saveLog, lookedUp, completeLog, dbAtStart, delivered, saveCount, token_checked, prevSaveFailed,
          setup, selected, rejected>>

dbVars == <<db, sessions, delivered, saveCount>>
processLocals == <<session_id, session_status, status_ref, all_clippings, new_clippings, raising>>
opLog == <<batch, export_result, saveLog, lookedUp, completeLog, setup, selected>>

NoResult == [sent |-> -1, failed |-> -1]
NoSetup == [file_exists |-> FALSE, token_valid |-> FALSE]
NoSelection == [known |-> 0, unknown |-> FALSE]

Init ==
  /\ source \in SeqUpTo(KindleClipping, MaxLen)
  /\ dry_run \in BOOLEAN
  /\ db = EmptyBag
  /\ sessions = <<>>
  /\ pc = "idle"
  /\ op = "none"
  /\ runs = 0
  /\ session_id = 0
  /\ stats = ExportStats
  /\ session_status = "success"
  /\ status_ref = "success"
  /\ all_clippings = <<>>
  /\ new_clippings = <<>>
  /\ raising = FALSE
  /\ outcome = "none"
  /\ pending = <<>>
  /\ batch = <<>>
  /\ export_result = NoResult
  /\ saveLog = <<>>
  /\ lookedUp = {}
  /\ completeLog = <<>>
  /\ dbAtStart = EmptyBag
  /\ delivered = [k \in Keys |-> 0]
  /\ saveCount = [k \in Keys |-> 0]
  /\ token_checked = FALSE
  /\ prevSaveFailed = FALSE
  /\ setup = NoSetup
  /\ selected = NoSelection
  /\ rejected = {}

\* an operation starts on an idle instance
Begin(name) ==
  /\ pc = "idle"
  /\ runs < MaxRuns
  /\ runs' = runs + 1
  /\ op' = name
  /\ dbAtStart' = db

\* the counters of deliveries and saves tell zero, one and more than one apart
UpTo2(n) == IF n > 2 THEN 2 ELSE n

\* send_highlights returned result for the clippings, and the first
\* sent_count of them went to _save_exported_highlights
SendAndSave(clippings, result, failing) ==
  LET sent == SuccessfullySent(clippings, result.sent)
  IN /\ batch' = clippings
     /\ export_result' = result
     /\ delivered' = [k \in Keys |-> UpTo2(delivered[k] + CountKey(Accepted(clippings, result), k))]
     /\ saveLog' = SaveCalls(sent, failing)
     /\ saveCount' = [k \in Keys |-> UpTo2(saveCount[k] + CountKey(sent, k))]
     /\ db' = SaveAll(db, sent, failing, 1)

\* the batch saved before it is sent: send_highlights raised after the saves
SendRaisesAfterSaving(clippings) ==
  /\ batch' = clippings
  /\ saveLog' = SaveCalls(clippings, {})
  /\ saveCount' = [k \in Keys |-> UpTo2(saveCount[k] + CountKey(clippings, k))]
  /\ db' = SaveAll(db, clippings, {}, 1)
  /\ UNCHANGED <<export_result, delivered>>

\* send_highlights raised
SendRaises(clippings) ==
  /\ batch' = clippings
  /\ UNCHANGED <<export_result, delivered, saveLog, saveCount, db>>

\* ------------------------------------------------------------ validate_setup
\* validate_token called whatever the mode
ChecksTokenAlways(file_exists, dry) == file_exists

\* lines 43-55: validate_token is called
ChecksToken(file_exists, dry) == file_exists /\ ~dry

\* lines 43-61: what the caller of validate_setup receives
SetupOutcome(file_exists, dry, token_valid) ==
  IF ~file_exists THEN "ValidationError"
  ELSE IF ChecksToken(file_exists, dry) /\ ~token_valid THEN "ValidationError"
  ELSE "ok"

ValidateSetup ==
  /\ Begin("validate_setup")
  /\ \E file_exists \in BOOLEAN, token_valid \in BOOLEAN :
       /\ setup' = [file_exists |-> file_exists, token_valid |-> token_valid]
       /\ token_checked' = ChecksToken(file_exists, dry_run)
       /\ outcome' = SetupOutcome(file_exists, dry_run, token_valid)
  /\ pc' = IF outcome' = "ok" THEN "returned" ELSE "raised"
  /\ batch' = <<>> /\ export_result' = NoResult /\ saveLog' = <<>> /\ lookedUp' = {}
  /\ completeLog' = <<>>
  /\ selected' = NoSelection
  /\ UNCHANGED <<source, dry_run, dbVars, processLocals, stats, pending, prevSaveFailed, rejected>>

\* ------------------------------------------------------------------ process
\* lines 72-85, start_export_session returns
ProcessStart ==
  /\ Begin("process")
  /\ IF dry_run
     THEN session_id' = 0 /\ UNCHANGED sessions
     ELSE sessions' = start_export_session(sessions) /\ session_id' = Len(sessions) + 1
  /\ stats' = ExportStats
  /\ session_status' = "success"
  /\ status_ref' = "success"
  /\ all_clippings' = <<>>
  /\ new_clippings' = <<>>
  /\ raising' = FALSE
  /\ outcome' = "none"
  /\ pc' = "parsing"
  /\ batch' = <<>> /\ export_result' = NoResult /\ saveLog' = <<>> /\ lookedUp' = {}
  /\ completeLog' = <<>>
  /\ setup' = NoSetup
  /\ selected' = NoSelection
  /\ token_checked' = FALSE
  /\ UNCHANGED <<source, dry_run, db, delivered, saveCount, pending, prevSaveFailed, rejected>>

\* line 80, start_export_session raises: nothing of process has run
ProcessStartFails ==
  /\ Begin("process")
  /\ ~dry_run
  /\ outcome' = "StorageError"
  /\ pc' = "raised"
  /\ session_id' = 0
  /\ stats' = ExportStats
  /\ batch' = <<>> /\ export_result' = NoResult /\ saveLog' = <<>> /\ lookedUp' = {}
  /\ completeLog' = <<>>
  /\ setup' = NoSetup
  /\ selected' = NoSelection
  /\ token_checked' = FALSE
  /\ UNCHANGED <<source, dry_run, dbVars, session_status, status_ref, all_clippings,
                 new_clippings, raising, pending, prevSaveFailed, rejected>>

\* lines 89-91
Parse ==
  /\ pc = "parsing"
  /\ all_clippings' = source
  /\ stats' = [stats EXCEPT !.total_processed = Len(source)]
  /\ pc' = "filtering"
  /\ UNCHANGED <<source, dry_run, dbVars, op, runs, session_id, session_status, status_ref,
                 new_clippings, raising, outcome, pending, opLog, dbAtStart, token_checked, prevSaveFailed, rejected>>

\* line 89, parser.parse raises
ParseFails ==
  /\ pc = "parsing"
  /\ pc' = "except"
  /\ UNCHANGED <<source, dry_run, dbVars, op, runs, processLocals, stats, outcome, pending,
                 opLog, dbAtStart, token_checked, prevSaveFailed, rejected>>

\* lines 119-126
FilterDuplicates ==
  /\ pc = "filtering"
  /\ new_clippings' = FilterNew(all_clippings, db)
  /\ stats' = [stats EXCEPT !.duplicates_skipped = FilterDupCount(all_clippings, db),
                            !.new_sent = Len(FilterNew(all_clippings, db))]
  /\ lookedUp' = FilterLookedUp(all_clippings, Len(all_clippings))
  /\ pc' = "exporting"
  /\ UNCHANGED <<source, dry_run, dbVars, op, runs, session_id, session_status, status_ref,
                 all_clippings, raising, outcome, pending, batch, export_result, saveLog,
                 completeLog, setup, selected, dbAtStart, token_checked, prevSaveFailed, rejected>>

\* line 214, highlight_exists raises at the n-th clipping
FilterFails ==
  /\ pc = "filtering"
  /\ \E n \in 1..Len(all_clippings) :
       /\ ~NoContent(all_clippings[n])
       /\ lookedUp' = FilterLookedUp(all_clippings, n)
  /\ pc' = "except"
  /\ UNCHANGED <<source, dry_run, dbVars, op, runs, processLocals, stats, outcome, pending,
                 batch, export_result, saveLog, completeLog, setup, selected, dbAtStart, token_checked, prevSaveFailed, rejected>>

\* lines 134-136, then 95-99
ExportNothing ==
  /\ pc = "exporting"
  /\ new_clippings = <<>>
  /\ stats' = [stats EXCEPT !.new_sent = 0]
  /\ session_status' = status_ref
  /\ pc' = "finally"
  /\ UNCHANGED <<source, dry_run, dbVars, op, runs, session_id, status_ref, all_clippings,
                 new_clippings, raising, outcome, pending, opLog, dbAtStart, token_checked, prevSaveFailed, rejected>>

\* lines 130-131 and 138-146, then 95-99
HandleDryRunExport ==
  /\ pc = "exporting"
  /\ new_clippings # <<>>
  /\ dry_run
  /\ stats' = DryRunStats(stats, new_clippings)
  /\ session_status' = status_ref
  /\ pc' = "finally"
  /\ UNCHANGED <<source, dry_run, dbVars, op, runs, session_id, status_ref, all_clippings,
                 new_clippings, raising, outcome, pending, opLog, dbAtStart, token_checked, prevSaveFailed, rejected>>

\* lines 132-133 and 148-173, then 95-99
HandleRealExport ==
  /\ pc = "exporting"
  /\ new_clippings # <<>>
  /\ ~dry_run
  /\ \E result \in SendResults(new_clippings) : \E failing \in SUBSET (1..result.sent) :
       /\ SendAndSave(new_clippings, result, failing)
       /\ stats' = RealExportStats(stats, result)
       /\ status_ref' = ExportStatus(status_ref, result.failed)
  /\ session_status' = status_ref'
  /\ pc' = "finally"
  /\ UNCHANGED <<source, dry_run, sessions, op, runs, session_id, all_clippings, new_clippings,
                 raising, outcome, pending, lookedUp, completeLog, setup, selected, dbAtStart, token_checked, prevSaveFailed, rejected>>

\* line 153, send_highlights raises
HandleRealExportFails ==
  /\ pc = "exporting"
  /\ new_clippings # <<>>
  /\ ~dry_run
  /\ SendRaises(new_clippings)
  /\ pc' = "except"
  /\ UNCHANGED <<source, dry_run, sessions, op, runs, processLocals, stats, outcome, pending,
                 lookedUp, completeLog, setup, selected, dbAtStart, token_checked, prevSaveFailed, rejected>>

\* lines 101-108
Except ==
  /\ pc = "except"
  /\ session_status' = "error"
  /\ stats' = ErrorStats(stats, all_clippings)
  /\ raising' = TRUE
  /\ pc' = "finally"
  /\ UNCHANGED <<source, dry_run, dbVars, op, runs, session_id, status_ref, all_clippings,
                 new_clippings, outcome, pending, opLog, dbAtStart, token_checked, prevSaveFailed, rejected>>

\* the dry-run test of _complete_process inverted
TracksSessionDryOnly(dry, id) == dry /\ id # 0

\* _complete_process: `not self.dry_run and session_id is not None`
TracksSession(dry, id) == ~dry /\ id # 0

\* lines 109-112 and 175-197
CompleteProcess ==
  /\ pc = "finally"
  /\ IF TracksSession(dry_run, session_id)
     THEN /\ sessions' = complete_export_session(sessions, session_id, session_status)
          /\ completeLog' = Append(completeLog, [session_id |-> session_id, stats |-> stats, status |-> session_status])
     ELSE UNCHANGED <<sessions, completeLog>>
  /\ outcome' = IF raising THEN "ProcessingError" ELSE "stats"
  /\ pc' = IF raising THEN "raised" ELSE "returned"
  /\ UNCHANGED <<source, dry_run, db, delivered, saveCount, op, runs, processLocals,
                 stats, pending, batch, export_result, saveLog, lookedUp, dbAtStart,
                 token_checked, prevSaveFailed, rejected, setup, selected>>

\* --------------------------------------------------- get_pending_highlights
GetPendingHighlights ==
  /\ Begin("get_pending_highlights")
  /\ pending' = get_pending_highlights(source, db)
  /\ lookedUp' = {}
  /\ completeLog' = <<>>
  /\ setup' = NoSetup
  /\ selected' = NoSelection
  /\ outcome' = "pending"
  /\ pc' = "returned"
  /\ batch' = <<>> /\ export_result' = NoResult /\ saveLog' = <<>>
  /\ token_checked' = FALSE
  /\ UNCHANGED <<source, dry_run, dbVars, processLocals, stats, prevSaveFailed, rejected>>

\* line 260 or line 269 raises
GetPendingHighlightsFails ==
  /\ Begin("get_pending_highlights")
  /\ outcome' \in {"ParsingError"} \cup (IF source = <<>> THEN {} ELSE {"StorageError"})
  /\ lookedUp' = {}
  /\ completeLog' = <<>>
  /\ setup' = NoSetup
  /\ selected' = NoSelection
  /\ pc' = "raised"
  /\ batch' = <<>> /\ export_result' = NoResult /\ saveLog' = <<>>
  /\ token_checked' = FALSE
  /\ UNCHANGED <<source, dry_run, dbVars, processLocals, stats, pending, prevSaveFailed, rejected>>

\* --------------------------------------------------------- process_selected
\* lines 320-324
SelectedStats(clippings, pend) ==
  [total_processed |-> Len(clippings), new_sent |-> 0,
   duplicates_skipped |-> Len(clippings) - Len(pend), failed_to_send |-> 0]

\* the lists of ids a caller may pass: ids of the view, repeated or not, and an
\* id beyond it
SelectedIds == SeqUpTo(1..(MaxLen + 1), MaxSel)

\* the lists selected_clippings can be for a pending view
SelectedBatches(pend) == {SelectedClippings(pend, selected_ids) : selected_ids \in SelectedIds}

\* how many of selected_ids are ids of the pending view
NumKnown(pend, selected_ids) == Cardinality({i \in 1..Len(selected_ids) : InIdMap(pend, selected_ids[i])})

\* process_selected for one list of ids: selected_clippings, and what the list was
Selection(pend, selected_ids) ==
  [clippings |-> SelectedClippings(pend, selected_ids),
   known |-> NumKnown(pend, selected_ids),
   unknown |-> NumKnown(pend, selected_ids) < Len(selected_ids)]

\* process_selected over the lists of ids a caller may pass
Selections(pend) == {Selection(pend, selected_ids) : selected_ids \in SelectedIds}

\* lines 301-328 and 349-352, nothing selected
ProcessSelectedNothing ==
  /\ Begin("process_selected")
  /\ pending' = get_pending_highlights(source, db)
  /\ \E sel \in Selections(pending') :
       /\ sel.clippings = <<>>
       /\ selected' = [known |-> sel.known, unknown |-> sel.unknown]
  /\ lookedUp' = {}
  /\ completeLog' = <<>>
  /\ setup' = NoSetup
  /\ stats' = SelectedStats(source, pending')
  /\ outcome' = "stats"
  /\ pc' = "returned"
  /\ batch' = <<>> /\ export_result' = NoResult /\ saveLog' = <<>>
  /\ token_checked' = FALSE
  /\ UNCHANGED <<source, dry_run, dbVars, processLocals, prevSaveFailed, rejected>>

\* lines 301-337 and 352
ProcessSelectedDryRun ==
  /\ Begin("process_selected")
  /\ dry_run
  /\ pending' = get_pending_highlights(source, db)
  /\ \E sel \in Selections(pending') :
       /\ sel.clippings # <<>>
       /\ selected' = [known |-> sel.known, unknown |-> sel.unknown]
       /\ stats' = [SelectedStats(source, pending') EXCEPT !.new_sent = Len(sel.clippings)]
  /\ lookedUp' = {}
  /\ completeLog' = <<>>
  /\ setup' = NoSetup
  /\ outcome' = "stats"
  /\ pc' = "returned"
  /\ batch' = <<>> /\ export_result' = NoResult /\ saveLog' = <<>>
  /\ token_checked' = FALSE
  /\ UNCHANGED <<source, dry_run, dbVars, processLocals, prevSaveFailed, rejected>>

\* lines 301-328, 338-348 and 352
ProcessSelectedReal ==
  /\ Begin("process_selected")
  /\ ~dry_run
  /\ pending' = get_pending_highlights(source, db)
  /\ \E sel \in Selections(pending') :
       \E result \in SendResults(sel.clippings) : \E failing \in SUBSET (1..result.sent) :
          /\ sel.clippings # <<>>
          /\ selected' = [known |-> sel.known, unknown |-> sel.unknown]
          /\ SendAndSave(sel.clippings, result, failing)
          /\ stats' = [SelectedStats(source, pending') EXCEPT
                         !.new_sent = result.sent, !.failed_to_send = result.failed]
  /\ lookedUp' = {}
  /\ completeLog' = <<>>
  /\ setup' = NoSetup
  /\ outcome' = "stats"
  /\ pc' = "returned"
  /\ token_checked' = FALSE
  /\ UNCHANGED <<source, dry_run, sessions, processLocals, prevSaveFailed, rejected>>

\* line 340, send_highlights raises
ProcessSelectedSendFails ==
  /\ Begin("process_selected")
  /\ ~dry_run
  /\ pending' = get_pending_highlights(source, db)
  /\ \E sel \in Selections(pending') :
       /\ sel.clippings # <<>>
       /\ selected' = [known |-> sel.known, unknown |-> sel.unknown]
       /\ SendRaises(sel.clippings)
  /\ lookedUp' = {}
  /\ completeLog' = <<>>
  /\ setup' = NoSetup
  /\ outcome' = "DeliveryError"
  /\ pc' = "raised"
  /\ token_checked' = FALSE
  /\ UNCHANGED <<source, dry_run, sessions, processLocals, stats, prevSaveFailed, rejected>>

\* line 304, or line 308 (260, 269), raises
ProcessSelectedParseFails ==
  /\ Begin("process_selected")
  /\ outcome' \in {"ParsingError"} \cup (IF source = <<>> THEN {} ELSE {"StorageError"})
  /\ lookedUp' = {}
  /\ completeLog' = <<>>
  /\ setup' = NoSetup
  /\ selected' = NoSelection
  /\ pc' = "raised"
  /\ batch' = <<>> /\ export_result' = NoResult /\ saveLog' = <<>>
  /\ token_checked' = FALSE
  /\ UNCHANGED <<source, dry_run, dbVars, processLocals, stats, pending, prevSaveFailed, rejected>>

\* ------------------------------------------------------------ the instance
\* _save_exported_highlights: the except branch was taken
SaveFailed(log) == \E i \in 1..Len(log) : ~log[i].ok

\* close_db, and __init__ of the next instance on the same database and file
NewInstance ==
  /\ pc \in {"returned", "raised"}
  /\ runs < MaxRuns
  /\ pc' = "idle"
  /\ dry_run' \in BOOLEAN
  /\ op' = "none"
  /\ session_id' = 0
  /\ stats' = ExportStats
  /\ session_status' = "success"
  /\ status_ref' = "success"
  /\ all_clippings' = <<>>
  /\ new_clippings' = <<>>
  /\ raising' = FALSE
  /\ outcome' = "none"
  /\ pending' = <<>>
  /\ batch' = <<>> /\ export_result' = NoResult /\ saveLog' = <<>> /\ lookedUp' = {}
  /\ completeLog' = <<>>
  /\ setup' = NoSetup
  /\ selected' = NoSelection
  /\ dbAtStart' = db
  /\ token_checked' = FALSE
  /\ prevSaveFailed' = IF op = "process" /\ ~dry_run /\ session_id # 0 THEN SaveFailed(saveLog) ELSE prevSaveFailed
  /\ UNCHANGED <<source, dbVars, runs, rejected>>

Next ==
  \/ ValidateSetup
  \/ ProcessStart
  \/ ProcessStartFails
  \/ Parse
  \/ ParseFails
  \/ FilterDuplicates
  \/ FilterFails
  \/ ExportNothing
  \/ HandleDryRunExport
  \/ HandleRealExport
  \/ HandleRealExportFails
  \/ Except
  \/ CompleteProcess
  \/ GetPendingHighlights
  \/ GetPendingHighlightsFails
  \/ ProcessSelectedNothing
  \/ ProcessSelectedDryRun
  \/ ProcessSelectedReal
  \/ ProcessSelectedSendFails
  \/ ProcessSelectedParseFails
  \/ NewInstance

Spec == Init /\ [][Next]_vars

\* ------------------------------------------- repeated runs of process()
\* The instance is always built with dry_run = False and only process() is
\* called; the file parses, the database answers, every save succeeds, and
\* send_highlights returns with at least one clipping accepted.
LiveInit == Init /\ ~dry_run

\* lines 132-133 and 148-173, then 95-99: send_highlights accepts the first
\* result.sent >= 1 clippings and every save_highlight returns
LiveHandleRealExport ==
  /\ pc = "exporting"
  /\ new_clippings # <<>>
  /\ ~dry_run
  /\ \E result \in SendResults(new_clippings) :
       /\ result.sent >= 1
       /\ SendAndSave(new_clippings, result, {})
       /\ stats' = RealExportStats(stats, result)
       /\ status_ref' = ExportStatus(status_ref, result.failed)
       /\ rejected' = {new_clippings[i] : i \in (result.sent + 1)..Len(new_clippings)}
  /\ session_status' = status_ref'
  /\ pc' = "finally"
  /\ UNCHANGED <<source, dry_run, sessions, op, runs, session_id, all_clippings, new_clippings,
                 raising, outcome, pending, lookedUp, completeLog, setup, selected, dbAtStart,
                 token_checked, prevSaveFailed>>

\* close_db, and __init__ of the next instance with dry_run = False
LiveNewInstance == NewInstance /\ ~dry_run'

LiveNext ==
  \/ ProcessStart
  \/ Parse
  \/ FilterDuplicates
  \/ ExportNothing
  \/ LiveHandleRealExport
  \/ CompleteProcess
  \/ LiveNewInstance

\* process() is synchronous: a run that started goes on to its end
LiveSpec == LiveInit /\ [][LiveNext]_vars /\ WF_vars(LiveNext)

\* ------------------------------------------------------------- properties
Finished == pc \in {"returned", "raised"}

\* a real (not dry-run) process() that has ended
RealProcessEnded == op = "process" /\ ~dry_run /\ Finished

\* the rows this operation added to the highlights table
RowsAdded == db (-) dbAtStart

\* the rows of a list of clippings saved with status success
RECURSIVE SuccessRows(_)
SuccessRows(clippings) ==
  IF clippings = <<>> THEN EmptyBag
  ELSE SetToBag({[key |-> DedupKey(Head(clippings)), export_status |-> "success"]}) (+) SuccessRows(Tail(clippings))

\* the clippings of the save_highlight calls that did not raise, in call order
RECURSIVE SavedOk(_)
SavedOk(log) ==
  IF log = <<>> THEN <<>>
  ELSE IF Head(log).ok THEN <<Head(log).clipping>> \o SavedOk(Tail(log)) ELSE SavedOk(Tail(log))

\* number of clippings of a list that have content
WithContent(clippings) == Cardinality({i \in 1..Len(clippings) : clippings[i].content # ""})

\* the accounting relation of ExportStats
Accounted(st) == st.new_sent + st.failed_to_send <= st.total_processed - st.duplicates_skipped

\* C1 as stated: after a real process() whose send returned sent = k for a batch
\* of n, the rows the run persisted are exactly the first k clippings of the
\* batch, with status success, and none of the other n - k.
C1_FirstKPersisted ==
  (RealProcessEnded /\ export_result # NoResult) =>
     RowsAdded = SuccessRows(SubSeq(batch, 1, export_result.sent))

\* C1 amended: after a real process() whose send returned sent = k for a batch
\* of n, save_highlight was called with status success on exactly the first k
\* clippings of the batch, in submission order, and on none of the other n - k;
\* the rows the run persisted are those of the calls that did not raise.
C1_FirstKSaved ==
  (RealProcessEnded /\ export_result # NoResult) =>
     /\ export_result.sent + export_result.failed = Len(batch)
     /\ [i \in 1..Len(saveLog) |-> saveLog[i].clipping] = SubSeq(batch, 1, export_result.sent)
     /\ RowsAdded = SuccessRows(SavedOk(saveLog))

\* C1 witness: a partial send, one of two accepted, and its one row persisted
C1_Witness ==
  /\ RealProcessEnded
  /\ Len(batch) = 2
  /\ export_result.sent = 1
  /\ export_result.failed = 1
  /\ BagCardinality(RowsAdded) = 1

\* C2: no highlight, identified by its DedupKey, is accepted by Readwise more
\* than once over all the runs against the same database and file.
C2_AtMostOnceDelivery == \A key \in Keys : delivered[key] <= 1

\* C3: save_highlight is never called twice for clippings with an equal
\* DedupKey, also when the file holds two clippings with the same key.
C3_LedgerUniqueness == \A key \in Keys : saveCount[key] <= 1

\* the session of the real process() before the one that is running
PreviousSession == sessions[session_id - 1]

\* C4 as stated: a real process() that follows a real process() which returned,
\* on the same file, returns new_sent = 0 and duplicates_skipped =
\* total_processed minus the number of clippings without content.
C4_SecondRunAllDuplicates ==
  (RealProcessEnded /\ outcome = "stats" /\ session_id > 1 /\ PreviousSession.status \in {"success", "partial"}) =>
     /\ stats.new_sent = 0
     /\ stats.duplicates_skipped = stats.total_processed - (Len(source) - WithContent(source))

\* C4 amended: when the earlier real process() returned with failed_to_send = 0
\* and none of its saves failed, the next real process() on the same file
\* returns new_sent = 0 and duplicates_skipped = total_processed minus the
\* number of clippings without content.
C4_SecondRunAfterCleanRun ==
  (RealProcessEnded /\ outcome = "stats" /\ session_id > 1 /\ PreviousSession.status = "success" /\ ~prevSaveFailed) =>
     /\ stats.new_sent = 0
     /\ stats.failed_to_send = 0
     /\ stats.duplicates_skipped = stats.total_processed - (Len(source) - WithContent(source))

\* C4 witness: a second run that skips a stored clipping and drops an empty one
C4_Witness ==
  /\ RealProcessEnded
  /\ outcome = "stats"
  /\ session_id > 1
  /\ PreviousSession.status = "success"
  /\ ~prevSaveFailed
  /\ stats.duplicates_skipped >= 1
  /\ stats.duplicates_skipped < stats.total_processed

\* C5: in dry-run mode no step of any operation opens or completes a session,
\* sends to Readwise, saves a highlight or validates the token, the database is
\* left as it was, and the new_sent process() returns is the number of
\* clippings of the file that have content and are not in the database.
C5_PreviewDoesNotMutate ==
  [][dry_run =>
       /\ db' = db
       /\ sessions' = sessions
       /\ delivered' = delivered
       /\ saveCount' = saveCount
       /\ batch' = <<>>
       /\ saveLog' = <<>>
       /\ export_result' = NoResult
       /\ completeLog' = <<>>
       /\ ~token_checked'
       /\ (op' = "process" /\ pc' = "returned") =>
             stats'.new_sent = Cardinality({i \in 1..Len(source) :
                                  source[i].content # "" /\ ~highlight_exists(db, DedupKey(source[i]))})]_vars

\* C5 witness: a dry-run process() over a database that holds one of the
\* clippings of the file reports the other one as to be sent
C5_Witness ==
  /\ dry_run
  /\ op = "process"
  /\ pc = "returned"
  /\ db # EmptyBag
  /\ stats.duplicates_skipped = 1
  /\ stats.new_sent = 1

\* C6: a real process() that opened a session has completed it exactly once
\* when it ends, however it ends, not before its cleanup runs, and a completed
\* session is never completed or changed again.
C6_SessionCompletedOnce ==
  [][/\ \A id \in 1..Len(sessions) : sessions[id].completions >= 1 => sessions'[id] = sessions[id]
     /\ (op' = "process" /\ ~dry_run' /\ session_id' # 0) =>
          IF pc' \in {"returned", "raised"}
          THEN /\ sessions'[session_id'].completions = 1
               /\ Len(completeLog') = 1
               /\ completeLog'[1].session_id = session_id'
          ELSE /\ sessions'[session_id'].completions = 0
               /\ completeLog' = <<>>]_vars

\* C6 witness: a run aborted by an exception, its session completed once
C6_Witness ==
  /\ RealProcessEnded
  /\ outcome = "ProcessingError"
  /\ session_id # 0
  /\ sessions[session_id].completions = 1
  /\ Len(completeLog) = 1

\* C7: the status complete_export_session writes for a real process() is
\* success iff no exception aborted it and failed_to_send = 0, partial iff no
\* exception aborted it and failed_to_send > 0, error iff an exception did.
C7_StatusDerivation ==
  (RealProcessEnded /\ session_id # 0) =>
     LET session == sessions[session_id]
         aborted == outcome = "ProcessingError"
         failed == IF export_result = NoResult THEN 0 ELSE export_result.failed
     IN /\ session.status \in {"success", "partial", "error"}
        /\ session.status = "success" <=> (~aborted /\ failed = 0)
        /\ session.status = "partial" <=> (~aborted /\ failed > 0)
        /\ session.status = "error" <=> aborted
        /\ completeLog[1].status = session.status
        /\ ~aborted => completeLog[1].stats.failed_to_send = failed

\* C7 witness: a run that returned after Readwise rejected a clipping
C7_Witness ==
  /\ RealProcessEnded
  /\ outcome = "stats"
  /\ session_id # 0
  /\ export_result # NoResult
  /\ export_result.failed > 0
  /\ sessions[session_id].status = "partial"

\* C8: when parsing, filtering or sending fails in a process() that opened a
\* session, the caller gets a ProcessingError and no stats, and by then the
\* session is completed with status error, new_sent = 0 and failed_to_send =
\* the number of parsed clippings.
C8_ErrorAfterCompletion ==
  /\ (op = "process" /\ raising /\ Finished) => outcome = "ProcessingError"
  /\ (op = "process" /\ raising /\ ~Finished) => outcome = "none"
  /\ (RealProcessEnded /\ outcome = "ProcessingError") =>
        /\ session_id # 0
        /\ sessions[session_id].completions = 1
        /\ sessions[session_id].status = "error"
        /\ Len(completeLog) = 1
        /\ completeLog[1].status = "error"
        /\ completeLog[1].stats.new_sent = 0
        /\ completeLog[1].stats.failed_to_send = Len(all_clippings)
        /\ all_clippings \in {<<>>, source}

\* C8 witness: send_highlights raised on a batch of two
C8_Witness ==
  /\ RealProcessEnded
  /\ outcome = "ProcessingError"
  /\ Len(batch) = 2
  /\ completeLog[1].stats.failed_to_send = 2

\* C9: every ExportStats returned by process() or process_selected(), or
\* written into a session by complete_export_session, satisfies new_sent +
\* failed_to_send <= total_processed - duplicates_skipped.
C9_StatsAccounting ==
  /\ (op \in {"process", "process_selected"} /\ pc = "returned") => Accounted(stats)
  /\ \A i \in 1..Len(completeLog) : Accounted(completeLog[i].stats)

\* C10: in process() a clipping without content is counted in total_processed
\* but is never looked up, sent or saved, and adds nothing to
\* duplicates_skipped, new_sent or failed_to_send.
C10_EmptyContentExcluded ==
  op = "process" =>
     /\ \A clipping \in lookedUp : clipping.content # ""
     /\ \A i \in 1..Len(batch) : batch[i].content # ""
     /\ \A i \in 1..Len(saveLog) : saveLog[i].clipping.content # ""
     /\ pc \in {"finally", "returned", "raised"} =>
           /\ stats.total_processed = Len(all_clippings)
           /\ stats.duplicates_skipped + stats.new_sent + stats.failed_to_send <= WithContent(all_clippings)

\* C11: get_pending_highlights returns one descriptor for each clipping of the
\* file that is not in the database, in file order, and the ids of the
\* descriptors are 1, 2, ..., m, their positions in the list returned.
C11_PendingIdsArePositions ==
  (op = "get_pending_highlights" /\ pc = "returned") =>
     /\ Len(pending) = Cardinality({i \in 1..Len(source) : ~highlight_exists(db, DedupKey(source[i]))})
     /\ \A i \in 1..Len(pending) : pending[i].id = i

\* the clippings of the descriptors of a pending view
PendingClippings(pend) == {pend[j].original_clipping : j \in 1..Len(pend)}

\* C12: in process_selected an id that is not the id of a descriptor of the
\* recomputed pending view raises no error, has no clipping sent or saved for
\* it and adds nothing to new_sent or failed_to_send; only clippings of the
\* pending view are sent.
C12_UnknownIdsIgnored ==
  (op = "process_selected" /\ Finished /\ outcome \notin {"ParsingError", "StorageError"}) =>
     /\ outcome \in {"stats", "DeliveryError"}
     /\ outcome = "DeliveryError" => (~dry_run /\ selected.known > 0)
     /\ \A i \in 1..Len(batch) : batch[i] \in PendingClippings(pending)
     /\ ~dry_run => Len(batch) = selected.known
     /\ Len(saveLog) <= selected.known
     /\ outcome = "stats" => stats.new_sent + stats.failed_to_send = selected.known

\* C12 witness: a list with an id of the view and an id that is not in it; the
\* one clipping was sent and accepted
C12_Witness ==
  /\ op = "process_selected"
  /\ pc = "returned"
  /\ ~dry_run
  /\ selected.unknown
  /\ selected.known = 1
  /\ Len(batch) = 1
  /\ stats.new_sent = 1
  /\ stats.failed_to_send = 0

FoundInStore(clippings, table) ==
  Cardinality({i \in 1..Len(clippings) : clippings[i].content # "" /\ highlight_exists(table, DedupKey(clippings[i]))})

\* what send_highlights reported to this operation; zeros when it was not called
SinkSent == IF export_result = NoResult THEN 0 ELSE export_result.sent
SinkFailed == IF export_result = NoResult THEN 0 ELSE export_result.failed

\* C14 as stated: a real process() that returns has total_processed = number
\* of parsed clippings, duplicates_skipped = number of clippings with content
\* whose key was in the database, new_sent and failed_to_send = the counts
\* send_highlights returned, and the number of rows it added = new_sent.
C14_StatsOfCompletedRun ==
  (RealProcessEnded /\ outcome = "stats") =>
     /\ stats.total_processed = Len(source)
     /\ stats.duplicates_skipped = FoundInStore(source, dbAtStart)
     /\ stats.new_sent = SinkSent
     /\ stats.failed_to_send = SinkFailed
     /\ BagCardinality(RowsAdded) = stats.new_sent

\* C14 amended: the same counters, save_highlight was called new_sent times,
\* and the number of rows added = new_sent minus the number of save_highlight
\* calls that raised.
C14_StatsOfCompletedRunSaves ==
  (RealProcessEnded /\ outcome = "stats") =>
     /\ stats.total_processed = Len(source)
     /\ stats.duplicates_skipped = FoundInStore(source, dbAtStart)
     /\ stats.new_sent = SinkSent
     /\ stats.failed_to_send = SinkFailed
     /\ completeLog[1].stats = stats
     /\ Len(saveLog) = stats.new_sent
     /\ BagCardinality(RowsAdded) = stats.new_sent - Cardinality({i \in 1..Len(saveLog) : ~saveLog[i].ok})

\* C14 witness: two clippings, one of them stored; the other one is sent,
\* accepted and saved
C14_Witness ==
  /\ RealProcessEnded
  /\ outcome = "stats"
  /\ stats = [total_processed |-> 2, new_sent |-> 1, duplicates_skipped |-> 1, failed_to_send |-> 0]
  /\ BagCardinality(RowsAdded) = 1

\* C15: when save_highlight raises for a clipping in a real process(), the
\* save of every other accepted clipping is still made and leaves its row,
\* new_sent and failed_to_send stay what send_highlights returned, the session
\* gets success or partial, and process() returns its stats.
C15_SaveFailureSwallowed ==
  (RealProcessEnded /\ SaveFailed(saveLog)) =>
     /\ outcome = "stats"
     /\ ~raising
     /\ sessions[session_id].status = (IF export_result.failed > 0 THEN "partial" ELSE "success")
     /\ stats.new_sent = export_result.sent
     /\ stats.failed_to_send = export_result.failed
     /\ completeLog[1].stats = stats
     /\ [i \in 1..Len(saveLog) |-> saveLog[i].clipping] = SubSeq(batch, 1, export_result.sent)
     /\ RowsAdded = SuccessRows(SavedOk(saveLog))

\* C15 witness: two clippings accepted, the save of the first raises, the
\* second is saved
C15_Witness ==
  /\ RealProcessEnded
  /\ outcome = "stats"
  /\ Len(saveLog) = 2
  /\ ~saveLog[1].ok
  /\ saveLog[2].ok
  /\ RowsAdded = SuccessRows(<<saveLog[2].clipping>>)
  /\ sessions[session_id].status = "success"

\* C16: a real process() whose session ends with status error, whether the
\* parser, highlight_exists or send_highlights raised, has called save_highlight
\* for no clipping and leaves the highlights table as it found it.
C16_HardFailurePersistsNothing ==
  (RealProcessEnded /\ session_id # 0 /\ sessions[session_id].status = "error") =>
     /\ saveLog = <<>>
     /\ export_result = NoResult
     /\ db = dbAtStart

\* C16 witness: send_highlights raised on a batch, over a database that
\* already holds a highlight
C16_Witness ==
  /\ RealProcessEnded
  /\ session_id # 0
  /\ sessions[session_id].status = "error"
  /\ batch # <<>>
  /\ db # EmptyBag
  /\ db = dbAtStart

\* the clippings of a list, in its order, that have content and whose key is
\* not in a highlights table
NewSubsequence(clippings, table) ==
  SelectSeq(clippings, LAMBDA c : c.content # "" /\ ~highlight_exists(table, DedupKey(c)))

\* C17: the batch process() gives to send_highlights is the subsequence, in
\* parse order, of the parsed clippings that have content and whose key is not
\* in the database when they are filtered; a clipping whose key is stored with
\* success is not in it.
C17_FilteringResult ==
  op = "process" =>
     /\ pc = "exporting" => new_clippings = NewSubsequence(all_clippings, db)
     /\ batch # <<>> => (~dry_run /\ batch = NewSubsequence(source, dbAtStart))
     /\ (~dry_run /\ pc = "returned") => batch = NewSubsequence(source, dbAtStart)
     /\ \A i \in 1..Len(batch) : ~highlight_exists(dbAtStart, DedupKey(batch[i]))

\* C17 witness: two different new clippings submitted in the order of the file
C17_Witness ==
  /\ op = "process"
  /\ pc = "returned"
  /\ Len(batch) = 2
  /\ batch[1] # batch[2]
  /\ batch = source

\* C18: for the same file and database the clippings get_pending_highlights
\* returns, which are the ones process_selected can send, are the clippings
\* _filter_duplicates keeps, in the same order; a clipping without content is
\* not listed as pending and is not sent by process_selected.
C18_PendingAgreesWithFilter ==
  (op \in {"get_pending_highlights", "process_selected"} /\ pc = "returned") =>
     /\ [i \in 1..Len(pending) |-> pending[i].original_clipping] = FilterNew(source, dbAtStart)
     /\ \A i \in 1..Len(pending) : pending[i].highlight # ""
     /\ \A i \in 1..Len(batch) : batch[i].content # ""

\* C19: one process_selected call, whatever ids its list repeats, sends each
\* clipping of the pending view at most once and saves it at most once, so
\* new_sent + failed_to_send is at most the number of pending clippings.
C19_SelectedAtMostOnce ==
  (op = "process_selected" /\ Finished /\ outcome \notin {"ParsingError", "StorageError"}) =>
     /\ \A c \in PendingClippings(pending) :
           /\ Cardinality({i \in 1..Len(batch) : batch[i] = c})
                 <= Cardinality({j \in 1..Len(pending) : pending[j].original_clipping = c})
           /\ Cardinality({i \in 1..Len(saveLog) : saveLog[i].clipping = c})
                 <= Cardinality({j \in 1..Len(pending) : pending[j].original_clipping = c})
     /\ outcome = "stats" => stats.new_sent + stats.failed_to_send <= Len(pending)

\* C20: a clipping Readwise rejected in a run of process() is not persisted by
\* that run, and the next real process() on the same file submits it again.
C20_RejectedResubmitted ==
  [][(op = "process" /\ pc = "exporting" /\ pc' = "finally") =>
        /\ \A c \in rejected' : ~highlight_exists(db', DedupKey(c))
        /\ \A c \in rejected : \E i \in 1..Len(batch') : batch'[i] = c]_vars

====
